---- MODULE Spec2Model ----
(***************************************************************************)
(* Asynchronous job lifecycle and client polling of report_valuation.     *)
(*                                                                         *)
(* The job store, the queue engine and the worker pipeline follow the     *)
(* README (src/unnamed/part_000); the client side follows the React hook  *)
(* useJobPoller and the Python poll_until_done of the same file, the      *)
(* upload wizard (src/unnamed/part_004, part_005) and the report page     *)
(* pipeline (src/web_app/src/pages/ReportsPage.tsx).                      *)
(***************************************************************************)
EXTENDS Integers, Sequences, FiniteSets, TLC

(***************************************************************************)
(* Bounds of the model.                                                    *)
(***************************************************************************)
NJobs == 2
PollJobs == 1
MaxPages == 1
MaxInFlight == 2
MaxEffects == 2
MaxTicks == 3
TimeoutTicks == 2
MaxRestore == 1
MaxUploadCalls == 2

(***************************************************************************)
(* Vocabulary.                                                             *)
(***************************************************************************)
NULL == "null"
NoPage == 0
NoJob == 0

JobIds == 1..NJobs

\* The jobs that get uploaded while a single-job poller is observed; an id
\* beyond them is an id the job store does not know.
PollJobIds == 1..PollJobs

PyIntervals == {1, 2}

PyTimeouts == {2, 3}

StatusOrder ==
    << "queued", "processing", "ocr_started", "ocr_completed",
       "translation_started", "translation_completed", "summarising",
       "completed" >>

JobStatus == { StatusOrder[i] : i \in 1..Len(StatusOrder) } \cup {"failed"}

TerminalStatus == {"completed", "failed"}

ErrorMessages == {"OCR failed: corrupt PDF"}

Rank(s) == CHOOSE i \in 1..Len(StatusOrder) : StatusOrder[i] = s

\* A progression that leaves out the state after s when there is one.
NextStatusSkips(s) ==
    StatusOrder[IF Rank(s) + 2 <= Len(StatusOrder)
                THEN Rank(s) + 2 ELSE Rank(s) + 1]

NextStatus(s) == StatusOrder[Rank(s) + 1]

VARIABLES
    jobs,           \* job store: job id -> <<>> (no record) or <<record>>
    celery,         \* queue engine state per job id
    accepted,       \* submissions answered with success so far
    enqueued,       \* tasks sent to the broker so far
    lastCall,       \* the last call of the job API and what it answered
    \* ---- useJobPoller ----
    mounted,        \* the component using the hook is mounted
    jobId,          \* the hook's jobId argument (NoJob = null)
    state,          \* useState<JobState | null>: <<>> or <<details>>
    downloadUrl,    \* useState<string | null>
    intervalRef,    \* intervalRef.current: 0 or a timer handle
    timerJob,       \* handle -> jobId captured by that effect's poll closure
    activeTimers,   \* handles of intervals that have not been cleared
    nextHandle,     \* next handle setInterval returns
    inflight,       \* fetches of poll() not yet resolved, in issue order
    elapsed,        \* interval periods elapsed since the current effect ran
    \* ---- poll_until_done ----
    pyPc,           \* "idle", "loop" or "done"
    pyJob,          \* job_id
    pyInterval,     \* interval
    pyNow,          \* time.time() since the call
    pyDeadline,     \* deadline, since the call
    pyResult,       \* "none", "data" or the exception that left the function
    pyData,         \* <<>> or <<the returned data>>
    \* ---- Upload wizard ----
    currentStep,    \* 1..5
    reportId,       \* 0 (null) or the id of the created report
    files,          \* UploadedFile[]: records id, size, status, progress
    selectedFiles,  \* string[]: ids of the selected files
    analysisResult, \* string | null
    alerts,         \* the alert() dialogs shown so far
    runPc,          \* where handleImportAndAnalyze is suspended
    runSel,         \* selectedFiles as captured by the running handler
    runReport,      \* reportId as captured by the running handler
    runUploads,     \* filesToUpload of the running handler
    serverFiles,    \* file ids stored under the report on the backend
    dispatched,     \* job_ids the import endpoint has dispatched
    urlReportId,    \* useParams().reportId: 0 (none) or a report id
    reportData,     \* useReport(urlReportId).data: <<>> or <<stored file ids>>
    restoreCalls,   \* requests of the restore effect's fetchAnalysis in flight
    detailCall,     \* the request ReportDetailView has in flight, or NULL
    lastRun,        \* how the last import-and-analyze run ended
    \* ---- batch poller ----
    batch,          \* the job ids polled together
    batchPhase,     \* "idle", "polling" or "done"
    polling,        \* job ids whose polling loop has not terminated
    anyFailed,      \* the aggregate failure flag
    errors,         \* the collected error messages
    \* ---- file management upload dialog ----
    uploadFiles,    \* the dialog's list of { file, status, progress }
    showUploadModal,
    uploadCalls,    \* onUpload calls not yet handled by handleUpload
    resetTimers,    \* pending setTimeout(..., 1500) resets
    uploadAlerted,  \* the "select a report folder" alert was shown
    \* ---- session, layout and admin pages ----
    token,          \* localStorage has auth_token
    account,        \* roles of the account the token belongs to
    userQuery,      \* state of the ['auth', 'user'] query
    user,           \* userQuery.data: <<>> or <<roles>>
    path,           \* the router's location
    logoutModalOpen,
    logoutPc        \* where performLogout is suspended

pyVars == << pyPc, pyJob, pyInterval, pyNow, pyDeadline, pyResult, pyData >>

restoreVars == << reportData, restoreCalls, detailCall >>

wizardVars == << currentStep, reportId, files, selectedFiles, analysisResult,
                 alerts, runPc, runSel, runReport, runUploads, serverFiles,
                 dispatched, urlReportId, lastRun, restoreVars >>

batchVars == << batch, batchPhase, polling, anyFailed, errors >>

hookVars == << mounted, jobId, state, downloadUrl, intervalRef, timerJob,
               activeTimers, nextHandle, inflight, elapsed >>

dialogVars == << uploadFiles, showUploadModal, uploadCalls, resetTimers,
                uploadAlerted >>

authVars == << token, account, userQuery, user, path, logoutModalOpen,
              logoutPc >>

pageVars == << dialogVars, authVars >>

serverVars == << jobs, celery >>

apiVars == << accepted, enqueued, lastCall >>

vars == << jobs, celery, accepted, enqueued, lastCall, mounted, jobId, state, downloadUrl, intervalRef,
           timerJob, activeTimers, nextHandle, inflight, elapsed,
           pyPc, pyJob, pyInterval, pyNow, pyDeadline, pyResult, pyData,
           currentStep, reportId, files, selectedFiles, analysisResult,
           alerts, runPc, runSel, runReport, runUploads, serverFiles,
           dispatched, urlReportId, reportData, restoreCalls, detailCall, lastRun,
           batch, batchPhase, polling, anyFailed, errors,
           uploadFiles, showUploadModal, uploadCalls, resetTimers,
           uploadAlerted, token, account, userQuery, user, path,
           logoutModalOpen, logoutPc >>

clientVars == << hookVars, pyVars, wizardVars, batchVars, pageVars >>

(***************************************************************************)
(* Job store and queue engine.                                             *)
(***************************************************************************)
NewJob ==
    [ processing_status |-> "queued",
      current_page      |-> NoPage,
      total_pages       |-> NoPage,
      output_pdf_path   |-> NULL,
      error_message     |-> NULL,
      completed_at      |-> NULL,
      summary           |-> NULL ]

Exists(j) == j \in JobIds /\ jobs[j] # <<>>

Job(j) == jobs[j][1]

Status(j) == Job(j).processing_status

IsTerminal(j) == Exists(j) /\ Status(j) \in TerminalStatus

SetJob(j, rec) == jobs' = [jobs EXCEPT ![j] = <<rec>>]

\* A submission whose task is sent to the broker twice.
UploadFileTwice(j) ==
    /\ ~Exists(j)
    /\ \A k \in JobIds : k < j => Exists(k)
    /\ SetJob(j, NewJob)
    /\ celery' = [celery EXCEPT ![j] = "PENDING"]
    /\ enqueued' = enqueued + 2
    /\ accepted' = accepted + 1
    /\ lastCall' = [ op |-> "upload", job |-> j,
                     result |-> NewJob.processing_status, detail |-> NULL ]
    /\ UNCHANGED clientVars

\* POST /api/v1/jobs/upload: one record, status queued, one task sent to Redis.
UploadFile(j) ==
    /\ ~Exists(j)
    /\ \A k \in JobIds : k < j => Exists(k)
    /\ SetJob(j, NewJob)
    /\ celery' = [celery EXCEPT ![j] = "PENDING"]
    /\ enqueued' = enqueued + 1
    /\ accepted' = accepted + 1
    /\ lastCall' = [ op |-> "upload", job |-> j,
                     result |-> NewJob.processing_status, detail |-> NULL ]
    /\ UNCHANGED clientVars

\* A task delivered again restarts the pipeline of a job already under way.
WorkerPickUpRedelivered(j) ==
    /\ Exists(j)
    /\ SetJob(j, [Job(j) EXCEPT !.processing_status = "processing"])
    /\ celery' = [celery EXCEPT ![j] = "STARTED"]
    /\ UNCHANGED << apiVars, clientVars >>

\* queued -> processing: the worker picked up the task.
WorkerPickUp(j) ==
    /\ Exists(j)
    /\ Status(j) = "queued"
    /\ celery[j] = "PENDING"
    /\ SetJob(j, [Job(j) EXCEPT !.processing_status = "processing"])
    /\ celery' = [celery EXCEPT ![j] = "STARTED"]
    /\ UNCHANGED << apiVars, clientVars >>

\* The fields the worker writes when it enters status s.
Entered(rec, s, pages) ==
    CASE s = "ocr_completed" ->
            [rec EXCEPT !.processing_status = s, !.total_pages = pages]
      [] s = "completed" ->
            [rec EXCEPT !.processing_status = s,
                        !.current_page = NoPage,
                        !.output_pdf_path = "translated.pdf",
                        !.summary = "summary",
                        !.completed_at = "ts"]
      [] OTHER -> [rec EXCEPT !.processing_status = s]

\* One forward transition of the status progression.
WorkerAdvance(j) ==
    /\ Exists(j)
    /\ celery[j] = "STARTED"
    /\ Status(j) \notin TerminalStatus \cup {"queued"}
    /\ Status(j) = "translation_started" =>
            Job(j).current_page = Job(j).total_pages
    /\ \E pages \in 1..MaxPages :
            SetJob(j, Entered(Job(j), NextStatus(Status(j)), pages))
    /\ celery' = [celery EXCEPT ![j] =
                    IF NextStatus(Status(j)) = "completed"
                    THEN "SUCCESS" ELSE @]
    /\ UNCHANGED << apiVars, clientVars >>

\* A page counter that counts a page twice.
WorkerPageSkips(j) ==
    /\ Exists(j)
    /\ celery[j] = "STARTED"
    /\ Status(j) = "translation_started"
    /\ Job(j).current_page < Job(j).total_pages
    /\ SetJob(j, [Job(j) EXCEPT !.current_page = @ + 2])
    /\ UNCHANGED << celery, apiVars, clientVars >>

\* translation_started: current_page increments per page.
WorkerPage(j) ==
    /\ Exists(j)
    /\ celery[j] = "STARTED"
    /\ Status(j) = "translation_started"
    /\ Job(j).current_page < Job(j).total_pages
    /\ SetJob(j, [Job(j) EXCEPT !.current_page = @ + 1])
    /\ UNCHANGED << celery, apiVars, clientVars >>

\* "If anything goes wrong": failed, error_message set.
WorkerFail(j) ==
    /\ Exists(j)
    /\ celery[j] = "STARTED"
    /\ Status(j) \notin TerminalStatus
    /\ \E msg \in ErrorMessages :
            SetJob(j, [Job(j) EXCEPT !.processing_status = "failed",
                                     !.error_message = msg])
    /\ celery' = [celery EXCEPT ![j] = "FAILURE"]
    /\ UNCHANGED << apiVars, clientVars >>

\* The worker process dies: the queue engine reports failure, the job store
\* keeps the last status the worker wrote.
WorkerCrash(j) ==
    /\ Exists(j)
    /\ celery[j] = "STARTED"
    /\ Status(j) \notin TerminalStatus
    /\ celery' = [celery EXCEPT ![j] = "FAILURE"]
    /\ UNCHANGED << jobs, apiVars, clientVars >>

\* The merged status object without the job store's error_message.
StatusResponseNoError(j) ==
    IF ~Exists(j)
    THEN [ kind |-> "notfound", failed |-> FALSE, details |-> NewJob,
           download_url |-> NULL ]
    ELSE [ kind |-> "ok",
           failed |-> (celery[j] = "FAILURE"),
           details |-> [Job(j) EXCEPT !.error_message = NULL],
           download_url |-> IF Status(j) = "completed"
                            THEN Job(j).output_pdf_path ELSE NULL ]

\* A status object that derives the locator from the job id alone.
StatusResponseAlwaysLocator(j) ==
    IF ~Exists(j)
    THEN [ kind |-> "notfound", failed |-> FALSE, details |-> NewJob,
           download_url |-> NULL ]
    ELSE [ kind |-> "ok",
           failed |-> (celery[j] = "FAILURE"),
           details |-> Job(j),
           download_url |-> "translated.pdf" ]

\* GET /api/v1/jobs/{job_id}: the merged status object, 404 on unknown id.
StatusResponse(j) ==
    IF ~Exists(j)
    THEN [ kind |-> "notfound", failed |-> FALSE, details |-> NewJob,
           download_url |-> NULL ]
    ELSE [ kind |-> "ok",
           failed |-> (celery[j] = "FAILURE"),
           details |-> Job(j),
           download_url |-> IF Status(j) = "completed"
                            THEN Job(j).output_pdf_path ELSE NULL ]

NetworkError ==
    [ kind |-> "neterr", failed |-> FALSE, details |-> NewJob,
      download_url |-> NULL ]

(***************************************************************************)
(* Calls of the job API seen from a caller.                                *)
(***************************************************************************)
ContentTypes == {"application/pdf", "image/png"}

RejectReasons == {"not_pdf", "too_large", "no_report", "unauthenticated"}

Call(op, j, result, detail) ==
    [ op |-> op, job |-> j, result |-> result, detail |-> detail ]

\* A status query that writes the record it reads.
StatusQueryTouches(j) ==
    /\ lastCall' = Call("status", j, StatusResponse(j).kind,
                        StatusResponse(j).download_url)
    /\ jobs' = [jobs EXCEPT ![j] =
                    IF Exists(j)
                    THEN << [Job(j) EXCEPT !.completed_at = "ts"] >>
                    ELSE @]
    /\ UNCHANGED << celery, accepted, enqueued, clientVars >>

\* GET /api/v1/jobs/{job_id} called by any client: the reply, nothing else.
StatusQuery(j) ==
    /\ lastCall' = Call("status", j, StatusResponse(j).kind,
                        StatusResponse(j).download_url)
    /\ UNCHANGED << serverVars, accepted, enqueued, clientVars >>

\* GET /api/v1/jobs/{job_id}/download: streams the file, 404 if there is none.
DownloadResponse(j) ==
    IF Exists(j) /\ Job(j).output_pdf_path # NULL THEN "file" ELSE "notfound"

Download(j) ==
    /\ lastCall' = Call("download", j, DownloadResponse(j), NULL)
    /\ UNCHANGED << serverVars, accepted, enqueued, clientVars >>

\* The submission endpoint refuses the request: an error reply, nothing else.
UploadRejected(reason) ==
    /\ lastCall' = Call("upload", NoJob, "error", reason)
    /\ UNCHANGED << serverVars, accepted, enqueued, clientVars >>

\* UploadStep.processFiles on a list of one file of the given type: it is
\* handed to onUpload if it is a PDF, and left out without a word if not.
ProcessFiles(ctype) ==
    /\ lastCall' = Call("processFiles", NoJob,
                        IF ctype = "application/pdf" THEN "onUpload"
                        ELSE "dropped",
                        ctype)
    /\ UNCHANGED << serverVars, accepted, enqueued, clientVars >>

(***************************************************************************)
(* useJobPoller (README, TypeScript polling example).                      *)
(***************************************************************************)
RemoveAt(s, i) == SubSeq(s, 1, i - 1) \o SubSeq(s, i + 1, Len(s))

\* const poll = async () => { const res = await fetch(...)
Fetch(q, j) == Append(q, [ job |-> j, phase |-> "sent", resp |-> NetworkError ])

\* return () => { if (intervalRef.current) clearInterval(intervalRef.current); }
Cleanup(active, ref) == IF ref # 0 THEN active \ {ref} ELSE active

\* useEffect(() => {...}, [jobId, token]) for a new value of jobId: the
\* cleanup of the previous effect, then the effect body.
RunEffect(j) ==
    /\ jobId' = j
    /\ elapsed' = 0
    /\ IF j = NoJob
       THEN /\ activeTimers' = Cleanup(activeTimers, intervalRef)
            /\ UNCHANGED << intervalRef, timerJob, nextHandle, inflight >>
       ELSE /\ inflight' = Fetch(inflight, j)
            /\ intervalRef' = nextHandle
            /\ timerJob' = [timerJob EXCEPT ![nextHandle] = j]
            /\ activeTimers' =
                    Cleanup(activeTimers, intervalRef) \cup {nextHandle}
            /\ nextHandle' = nextHandle + 1

\* The component mounts with a jobId, or its jobId prop changes.
SetJobId(j) ==
    /\ mounted \/ nextHandle = 1
    /\ j # jobId
    /\ j # NoJob => nextHandle <= MaxEffects /\ Len(inflight) < MaxInFlight
    /\ mounted' = TRUE
    /\ RunEffect(j)
    /\ UNCHANGED << pageVars, serverVars, apiVars, pyVars, wizardVars, batchVars, state, downloadUrl >>

\* The component unmounts: only the effect cleanup runs.
Unmount ==
    /\ mounted
    /\ mounted' = FALSE
    /\ activeTimers' = Cleanup(activeTimers, intervalRef)
    /\ UNCHANGED << pageVars, serverVars, apiVars, pyVars, wizardVars, batchVars, jobId, state, downloadUrl,
                    intervalRef, timerJob, nextHandle, inflight, elapsed >>

\* setInterval(poll, 3_000) fires: poll() issues one more fetch.
IntervalTick(h) ==
    /\ h \in activeTimers
    /\ elapsed < MaxTicks
    /\ Len(inflight) < MaxInFlight
    /\ inflight' = Fetch(inflight, timerJob[h])
    /\ elapsed' = elapsed + 1
    /\ UNCHANGED << pageVars, serverVars, apiVars, pyVars, wizardVars, batchVars, mounted, jobId, state, downloadUrl,
                    intervalRef, timerJob, activeTimers, nextHandle >>

\* The backend answers a fetch from the job store as it is now.
ServerAnswer(i) ==
    /\ i \in 1..Len(inflight)
    /\ inflight[i].phase = "sent"
    /\ inflight' = [inflight EXCEPT ![i].phase = "answered",
                                    ![i].resp = StatusResponse(inflight[i].job)]
    /\ UNCHANGED << pageVars, serverVars, apiVars, pyVars, wizardVars, batchVars, mounted, jobId, state, downloadUrl,
                    intervalRef, timerJob, activeTimers, nextHandle, elapsed >>

\* fetch rejects (transport error): poll() throws before any statement runs.
FetchThrows(i) ==
    /\ i \in 1..Len(inflight)
    /\ inflight[i].phase = "sent"
    /\ inflight' = RemoveAt(inflight, i)
    /\ UNCHANGED << pageVars, serverVars, apiVars, pyVars, wizardVars, batchVars, mounted, jobId, state, downloadUrl,
                    intervalRef, timerJob, activeTimers, nextHandle, elapsed >>

\* const done = ["completed", "failed"].includes(data.details?.processing_status)
Done(resp) == resp.details.processing_status \in {"completed", "failed"}

\* The rest of poll() after the awaited fetch resolved.
PollResume(i) ==
    /\ i \in 1..Len(inflight)
    /\ inflight[i].phase = "answered"
    /\ inflight' = RemoveAt(inflight, i)
    /\ LET resp == inflight[i].resp
       IN IF resp.kind # "ok"
          THEN UNCHANGED << state, downloadUrl, activeTimers >>
          ELSE /\ state' = IF mounted THEN << resp.details >> ELSE state
               /\ downloadUrl' = IF mounted /\ resp.download_url # NULL
                                 THEN resp.download_url ELSE downloadUrl
               /\ activeTimers' = IF Done(resp) /\ intervalRef # 0
                                  THEN activeTimers \ {intervalRef}
                                  ELSE activeTimers
    /\ UNCHANGED << pageVars, serverVars, apiVars, pyVars, wizardVars, batchVars, mounted, jobId, intervalRef,
                    timerJob, nextHandle, elapsed >>

(***************************************************************************)
(* poll_until_done (README, Python polling example).                       *)
(***************************************************************************)
\* poll_until_done(job_id, interval, timeout): deadline = time.time() + timeout
PyCall(j, interval, tmo) ==
    /\ pyPc = "idle"
    /\ pyPc' = "loop"
    /\ pyJob' = j
    /\ pyInterval' = interval
    /\ pyNow' = 0
    /\ pyDeadline' = tmo
    /\ UNCHANGED << pageVars, serverVars, apiVars, hookVars, wizardVars, batchVars, pyResult, pyData >>

\* if status == "completed": return data / if status == "failed": return data
PyReturns(data) ==
    \/ data.details.processing_status = "completed"
    \/ data.details.processing_status = "failed"

\* One iteration of the while loop whose httpx.get returns a response.
PyIterate ==
    /\ pyPc = "loop"
    /\ pyNow < pyDeadline
    /\ LET data == StatusResponse(pyJob)
       IN CASE data.kind # "ok" ->
                    \* r.raise_for_status()
                    /\ pyPc' = "done"
                    /\ pyResult' = "HTTPStatusError"
                    /\ UNCHANGED << pyNow, pyData >>
            [] data.kind = "ok" /\ PyReturns(data) ->
                    /\ pyPc' = "done"
                    /\ pyResult' = "data"
                    /\ pyData' = << data >>
                    /\ UNCHANGED pyNow
            [] OTHER ->
                    \* time.sleep(interval)
                    /\ pyNow' = pyNow + pyInterval
                    /\ UNCHANGED << pyPc, pyResult, pyData >>
    /\ UNCHANGED << pageVars, serverVars, apiVars, hookVars, wizardVars, batchVars, pyJob, pyInterval, pyDeadline >>

\* httpx.get raises a transport error: nothing in the function catches it.
PyGetThrows ==
    /\ pyPc = "loop"
    /\ pyNow < pyDeadline
    /\ pyPc' = "done"
    /\ pyResult' = "TransportError"
    /\ UNCHANGED << pageVars, serverVars, apiVars, hookVars, wizardVars, batchVars, pyJob, pyInterval, pyNow,
                    pyDeadline, pyData >>

\* The while condition fails: raise TimeoutError("Job did not complete in time")
PyTimeout ==
    /\ pyPc = "loop"
    /\ pyNow >= pyDeadline
    /\ pyPc' = "done"
    /\ pyResult' = "TimeoutError"
    /\ UNCHANGED << pageVars, serverVars, apiVars, hookVars, wizardVars, batchVars, pyJob, pyInterval, pyNow,
                    pyDeadline, pyData >>

(***************************************************************************)
(* Upload wizard (Upload component with URL-persisted report id).          *)
(***************************************************************************)
Ids(fs) == { fs[i].id : i \in 1..Len(fs) }

Includes(sel, f) == \E i \in 1..Len(sel) : sel[i] = f

Without(sel, f) == SelectSeq(sel, LAMBDA x : x # f)

NewFile(f) == [ id |-> f, size |-> 1, status |-> "pending", progress |-> 0 ]

\* prev.map(f => selectedFiles.includes(f.id) ? { ...f, status, progress } : f)
MarkSelected(fs, sel, st, pr) ==
    [ i \in 1..Len(fs) |->
        IF Includes(sel, fs[i].id)
        THEN [fs[i] EXCEPT !.status = st, !.progress = pr]
        ELSE fs[i] ]

\* files.filter(f => selectedFiles.includes(f.id)).filter(f => f.file.size > 0)
FilesToUpload(fs, sel) ==
    { fs[i].id : i \in { k \in 1..Len(fs) :
                            Includes(sel, fs[k].id) /\ fs[k].size > 0 } }

\* handleCreateReport: the mutation resolves with a report (then
\* navigate(`/upload/${id}`) and step 2), or it throws.
HandleCreateReport(ok) ==
    /\ currentStep = 1
    /\ runPc = "idle"
    /\ IF ok
       THEN /\ reportId' = 1
            /\ urlReportId' = 1
            /\ currentStep' = 2
            /\ UNCHANGED alerts
       ELSE /\ alerts' = alerts \cup {"Failed to create report. Try another name."}
            /\ UNCHANGED << reportId, urlReportId, currentStep >>
    /\ UNCHANGED << pageVars, serverVars, apiVars, hookVars, pyVars, batchVars,
                    restoreVars, lastRun, files, selectedFiles,
                    analysisResult, runPc, runSel, runReport, runUploads,
                    serverFiles, dispatched >>

\* UploadStep.onFilesChange with a longer list: the added file is selected.
AddFile(f) ==
    /\ currentStep = 2
    /\ f \notin Ids(files)
    /\ files' = Append(files, NewFile(f))
    /\ selectedFiles' = Append(selectedFiles, f)
    /\ UNCHANGED << pageVars, serverVars, apiVars, hookVars, pyVars, batchVars, restoreVars, urlReportId,
                    lastRun, currentStep, reportId,
                    analysisResult, alerts, runPc, runSel, runReport,
                    runUploads, serverFiles, dispatched >>

\* A removal that leaves the selection as it was.
RemoveFileKeepsSelection(f) ==
    /\ currentStep = 2
    /\ f \in Ids(files)
    /\ files' = SelectSeq(files, LAMBDA x : x.id # f)
    /\ UNCHANGED << pageVars, serverVars, apiVars, hookVars, pyVars, batchVars,
                    restoreVars, urlReportId, lastRun, currentStep, reportId,
                    selectedFiles, analysisResult, alerts, runPc, runSel,
                    runReport, runUploads, serverFiles, dispatched >>

\* UploadStep.onFilesChange with a shorter list: the selection is cleaned up.
RemoveFile(f) ==
    /\ currentStep = 2
    /\ f \in Ids(files)
    /\ files' = SelectSeq(files, LAMBDA x : x.id # f)
    /\ selectedFiles' = Without(selectedFiles, f)
    /\ UNCHANGED << pageVars, serverVars, apiVars, hookVars, pyVars, batchVars, restoreVars, urlReportId,
                    lastRun, currentStep, reportId,
                    analysisResult, alerts, runPc, runSel, runReport,
                    runUploads, serverFiles, dispatched >>

\* onNext / onBack of the upload and the file selection steps.
Navigate(from, to) ==
    /\ currentStep = from
    /\ runPc = "idle"
    /\ currentStep' = to
    /\ UNCHANGED << pageVars, serverVars, apiVars, hookVars, pyVars, batchVars, restoreVars, urlReportId,
                    lastRun, reportId, files,
                    selectedFiles, analysisResult, alerts, runPc, runSel,
                    runReport, runUploads, serverFiles, dispatched >>

\* FileSelectionStep.toggleFileSelection
ToggleFileSelection(f) ==
    /\ currentStep = 3
    /\ f \in Ids(files)
    /\ selectedFiles' = IF Includes(selectedFiles, f)
                        THEN Without(selectedFiles, f)
                        ELSE Append(selectedFiles, f)
    /\ UNCHANGED << pageVars, serverVars, apiVars, hookVars, pyVars, batchVars, restoreVars, urlReportId,
                    lastRun, currentStep, reportId,
                    files, analysisResult, alerts, runPc, runSel, runReport,
                    runUploads, serverFiles, dispatched >>

\* handleImportAndAnalyze up to its first await.
HandleImportAndAnalyze ==
    /\ currentStep = 3
    /\ runPc = "idle"
    /\ Len(selectedFiles) # 0
    /\ IF reportId = 0
       THEN /\ alerts' = alerts \cup {"Report ID is missing. Please restart."}
            /\ UNCHANGED << currentStep, files, runPc, runSel, runReport,
                            runUploads, lastRun >>
       ELSE /\ currentStep' = 4
            /\ lastRun' = "none"
            /\ runSel' = selectedFiles
            /\ runReport' = reportId
            /\ runUploads' = FilesToUpload(files, selectedFiles)
            /\ IF FilesToUpload(files, selectedFiles) # {}
               THEN /\ runPc' = "upload"
                    /\ UNCHANGED files
               ELSE /\ runPc' = "import"
                    /\ files' = MarkSelected(files, selectedFiles,
                                             "completed", 100)
            /\ UNCHANGED alerts
    /\ UNCHANGED << pageVars, serverVars, apiVars, hookVars, pyVars, batchVars,
                    restoreVars, urlReportId, reportId, selectedFiles,
                    analysisResult, serverFiles, dispatched >>

\* A catch block that marks every file, selected or not.
CatchMarksAll ==
    /\ alerts' = alerts \cup {"An error occurred during processing. Please try again."}
    /\ files' = [ i \in 1..Len(files) |->
                    [files[i] EXCEPT !.status = "error", !.progress = 0] ]
    /\ currentStep' = 3
    /\ runPc' = "idle"
    /\ runUploads' = {}
    /\ lastRun' = "failed"

\* catch (error): alert, the selected files become errors, back to step 3.
Catch ==
    /\ alerts' = alerts \cup {"An error occurred during processing. Please try again."}
    /\ files' = MarkSelected(files, runSel, "error", 0)
    /\ currentStep' = 3
    /\ runPc' = "idle"
    /\ runUploads' = {}
    /\ lastRun' = "failed"

\* await processMultipleMutation.mutateAsync(...) settles.
UploadSettles(ok) ==
    /\ runPc = "upload"
    /\ IF ok
       THEN /\ serverFiles' = serverFiles \cup runUploads
            /\ files' = MarkSelected(files, runSel, "completed", 100)
            /\ currentStep' = 4
            /\ runPc' = "import"
            /\ UNCHANGED << alerts, runUploads, lastRun >>
       ELSE /\ Catch
            /\ UNCHANGED serverFiles
    /\ UNCHANGED << pageVars, serverVars, apiVars, hookVars, pyVars, batchVars,
                    restoreVars, urlReportId, reportId, selectedFiles,
                    analysisResult, runSel, runReport, dispatched >>

\* POST /api/v1/reports/{report_id}/import on the backend: one Celery task
\* per stored file, then the reply; nothing is processed yet.
ImportDispatches ==
    /\ runPc = "import"
    /\ jobs' = [j \in JobIds |->
                    IF j \in serverFiles /\ ~Exists(j) THEN << NewJob >>
                    ELSE jobs[j]]
    /\ celery' = [j \in JobIds |->
                    IF j \in serverFiles /\ ~Exists(j) THEN "PENDING"
                    ELSE celery[j]]
    /\ enqueued' = enqueued
                    + Cardinality({ j \in serverFiles : ~Exists(j) })
    /\ accepted' = accepted
                    + Cardinality({ j \in serverFiles : ~Exists(j) })
    /\ dispatched' = dispatched \cup serverFiles
    /\ runPc' = "imported"
    /\ UNCHANGED << pageVars, hookVars, pyVars, batchVars, restoreVars, urlReportId,
                    lastRun, currentStep, reportId,
                    files, selectedFiles, analysisResult, alerts, runSel,
                    runReport, runUploads, serverFiles, lastCall >>

\* await reportsApi.importFiles(reportId) throws, or answers success: false.
ImportFails ==
    /\ runPc = "import"
    /\ Catch
    /\ UNCHANGED << pageVars, serverVars, apiVars, hookVars, pyVars, batchVars,
                    restoreVars, urlReportId, reportId, selectedFiles,
                    analysisResult, runSel, runReport, serverFiles,
                    dispatched >>

\* importResponse.success: "Trigger Analysis", the analyze request is sent.
ImportResumes ==
    /\ runPc = "imported"
    /\ runPc' = "analyze"
    /\ UNCHANGED << pageVars, serverVars, apiVars, hookVars, pyVars, batchVars,
                    restoreVars, urlReportId, lastRun, currentStep, reportId,
                    files, selectedFiles, analysisResult, alerts, runSel,
                    runReport, runUploads, serverFiles, dispatched >>

\* await reportsApi.analyzeReport(reportId) settles: with an analysis,
\* without one, or by throwing.
AnalyzeSettles(outcome) ==
    /\ runPc = "analyze"
    /\ IF outcome = "throws"
       THEN /\ Catch
            /\ UNCHANGED analysisResult
       ELSE /\ analysisResult' = IF outcome = "analysis" THEN "analysis"
                                 ELSE analysisResult
            /\ currentStep' = 5
            /\ runPc' = "idle"
            /\ runUploads' = {}
            /\ lastRun' = "ok"
            /\ UNCHANGED << files, alerts >>
    /\ UNCHANGED << pageVars, serverVars, apiVars, hookVars, pyVars, batchVars,
                    restoreVars, urlReportId, reportId, selectedFiles,
                    runSel, runReport, serverFiles, dispatched >>

\* handleFinish (CompletionStep.onRestart): reset all state, navigate('/upload').
HandleFinish ==
    /\ currentStep = 5
    /\ files' = <<>>
    /\ selectedFiles' = <<>>
    /\ analysisResult' = NULL
    /\ reportId' = 0
    /\ currentStep' = 1
    /\ urlReportId' = 0
    /\ reportData' = <<>>
    /\ UNCHANGED << pageVars, serverVars, apiVars, hookVars, pyVars, batchVars,
                    restoreCalls, detailCall, lastRun, alerts, runPc, runSel,
                    runReport, runUploads, serverFiles, dispatched >>

\* FileSelectionStep.selectAllFiles: everything, or nothing when everything
\* is already selected.
SelectAllFiles ==
    /\ currentStep = 3
    /\ selectedFiles' = IF Len(selectedFiles) = Len(files) THEN <<>>
                        ELSE [ i \in 1..Len(files) |-> files[i].id ]
    /\ UNCHANGED << pageVars, serverVars, apiVars, hookVars, pyVars, batchVars,
                    restoreVars, urlReportId, lastRun, currentStep,
                    reportId, files, analysisResult, alerts, runPc, runSel,
                    runReport, runUploads, serverFiles, dispatched >>

\* FileSelectionStep.clearAllFiles: setSelectedFiles([]).
ClearAllFiles ==
    /\ currentStep = 3
    /\ selectedFiles' = <<>>
    /\ UNCHANGED << pageVars, serverVars, apiVars, hookVars, pyVars, batchVars,
                    restoreVars, urlReportId, lastRun, currentStep,
                    reportId, files, analysisResult, alerts, runPc, runSel,
                    runReport, runUploads, serverFiles, dispatched >>

\* FileSelectionStep.removeFile: onFilesChange(filtered) is setFiles, and
\* the id leaves the selection when it is in it.
SelectionRemoveFile(f) ==
    /\ currentStep = 3
    /\ f \in Ids(files)
    /\ files' = SelectSeq(files, LAMBDA x : x.id # f)
    /\ selectedFiles' = IF Includes(selectedFiles, f)
                        THEN Without(selectedFiles, f)
                        ELSE selectedFiles
    /\ UNCHANGED << pageVars, serverVars, apiVars, hookVars, pyVars, batchVars,
                    restoreVars, urlReportId, lastRun, currentStep,
                    reportId, analysisResult, alerts, runPc, runSel,
                    runReport, runUploads, serverFiles, dispatched >>

(***************************************************************************)
(* Restoring the wizard from the report id in the URL, and the report      *)
(* browser's detail view.                                                  *)
(***************************************************************************)
\* reportFilesList.map(f => ({ id: f.id, file: new File([], ...),
\*                             status: 'pending', progress: 0, ... }))
RestoredFile(f) == [ id |-> f, size |-> 0, status |-> "pending", progress |-> 0 ]

RECURSIVE MappedFiles(_)
MappedFiles(S) ==
    IF S = {} THEN <<>>
    ELSE LET m == CHOOSE x \in S : \A y \in S : x <= y
         IN  << RestoredFile(m) >> \o MappedFiles(S \ {m})

\* The page is opened at /upload/<id> of a report that exists on the
\* server, holding the files S stored in earlier sessions.
OpenReportUrl(S) ==
    /\ urlReportId = 0
    /\ currentStep = 1
    /\ reportId = 0
    /\ files = <<>>
    /\ runPc = "idle"
    /\ urlReportId' = 1
    /\ serverFiles' = serverFiles \cup S
    /\ UNCHANGED << pageVars, serverVars, apiVars, hookVars, pyVars, batchVars,
                    restoreVars, lastRun, currentStep, reportId,
                    files, selectedFiles, analysisResult, alerts, runPc,
                    runSel, runReport, runUploads, dispatched >>

\* useReport(urlReportId) delivers the report and the restore effect runs:
\* report id, files and selection are restored, and fetchAnalysis sends
\* reportsApi.analyzeReport (POST /api/v1/reports/analysis).
RestoreEffect ==
    /\ urlReportId # 0
    /\ reportData = <<>>
    /\ Len(restoreCalls) < MaxRestore
    /\ reportData' = << serverFiles >>
    /\ reportId' = urlReportId
    /\ IF serverFiles # {}
       THEN /\ files' = MappedFiles(serverFiles)
            /\ selectedFiles' = [ i \in 1..Len(MappedFiles(serverFiles)) |->
                                    MappedFiles(serverFiles)[i].id ]
       ELSE UNCHANGED << files, selectedFiles >>
    /\ restoreCalls' = Append(restoreCalls,
                               [ op |-> "analyzeReport",
                                 hadFiles |-> serverFiles # {} ])
    /\ UNCHANGED << pageVars, serverVars, apiVars, hookVars, pyVars, batchVars,
                    detailCall, urlReportId, lastRun, currentStep,
                    analysisResult, alerts, runPc, runSel, runReport,
                    runUploads, serverFiles, dispatched >>

\* The analyze request of fetchAnalysis settles: with an analysis (step 5),
\* without one or by throwing (step 3 with restored files, else step 2).
RestoreAnalysisSettles(outcome) ==
    /\ restoreCalls # <<>>
    /\ restoreCalls' = Tail(restoreCalls)
    /\ IF outcome = "analysis"
       THEN /\ analysisResult' = "analysis"
            /\ currentStep' = 5
       ELSE /\ currentStep' = IF Head(restoreCalls).hadFiles THEN 3 ELSE 2
            /\ UNCHANGED analysisResult
    /\ UNCHANGED << pageVars, serverVars, apiVars, hookVars, pyVars, batchVars,
                    reportData, detailCall, urlReportId, lastRun,
                    reportId, files, selectedFiles, alerts, runPc, runSel,
                    runReport, runUploads, serverFiles, dispatched >>

\* ReportDetailView, fetchAnalysis: reportsApi.getReportAnalysis
\* (GET /api/v1/reports/{id}/analysis) when a report is selected.
DetailFetchAnalysis ==
    /\ detailCall = NULL
    /\ detailCall' = "getReportAnalysis"
    /\ UNCHANGED << pageVars, serverVars, apiVars, hookVars, pyVars, batchVars,
                    reportData, restoreCalls, urlReportId, lastRun,
                    currentStep, reportId, files, selectedFiles,
                    analysisResult, alerts, runPc, runSel, runReport,
                    runUploads, serverFiles, dispatched >>

\* The read of the detail view settles; the wizard is not involved.
DetailAnalysisSettles ==
    /\ detailCall # NULL
    /\ detailCall' = NULL
    /\ UNCHANGED << pageVars, serverVars, apiVars, hookVars, pyVars, batchVars,
                    reportData, restoreCalls, urlReportId, lastRun,
                    currentStep, reportId, files, selectedFiles,
                    analysisResult, alerts, runPc, runSel, runReport,
                    runUploads, serverFiles, dispatched >>

(***************************************************************************)
(* Client poller of a batch of jobs: one polling loop per job id, joined   *)
(* when every loop has terminated.                                         *)
(***************************************************************************)
\* The response ends its job's loop: terminal status, or queue-engine failure.
LoopEnds(resp) ==
    \/ resp.details.processing_status \in TerminalStatus
    \/ resp.failed

\* The terminal outcome of the job is a failure.
EndedFailed(resp) ==
    \/ resp.details.processing_status = "failed"
    \/ resp.failed

\* The batch of dispatched job ids starts polling: one loop per job id.
BatchStart(S) ==
    /\ batchPhase = "idle"
    /\ S # {}
    /\ \A j \in S : Exists(j)
    /\ batch' = S
    /\ polling' = S
    /\ batchPhase' = "polling"
    /\ UNCHANGED << pageVars, serverVars, apiVars, hookVars, pyVars, wizardVars, anyFailed,
                    errors >>

\* The tick of the loop of job j whose status query shows the job ended: the
\* loop terminates and the outcome is added to the aggregate.  (Earlier
\* ticks, and ticks whose request fails, leave the aggregate as it is.)
BatchTick(j) ==
    /\ batchPhase = "polling"
    /\ j \in polling
    /\ LET resp == StatusResponse(j)
       IN /\ LoopEnds(resp)
          /\ polling' = polling \ {j}
          /\ anyFailed' = (anyFailed \/ EndedFailed(resp))
          /\ errors' = IF EndedFailed(resp)
                          /\ resp.details.error_message # NULL
                       THEN Append(errors, resp.details.error_message)
                       ELSE errors
    /\ UNCHANGED << pageVars, serverVars, apiVars, hookVars, pyVars, wizardVars, batch,
                    batchPhase >>

\* Every loop has terminated: the batch is done.
BatchJoin ==
    /\ batchPhase = "polling"
    /\ polling = {}
    /\ batchPhase' = "done"
    /\ UNCHANGED << pageVars, serverVars, apiVars, hookVars, pyVars, wizardVars, batch, polling,
                    anyFailed, errors >>

(***************************************************************************)
(* File management: the upload dialog.                                     *)
(***************************************************************************)
UploadIds(fs) == { fs[i].file : i \in 1..Len(fs) }

\* prev.map(f => f.status === from ? { ...f, status: to, progress: pr } : f)
MarkStatus(fs, from, to, pr) ==
    [ i \in 1..Len(fs) |->
        IF fs[i].status = from
        THEN [fs[i] EXCEPT !.status = to, !.progress = pr]
        ELSE fs[i] ]

\* catch: prev.map(f => f.status === 'uploading' ? { ...f, status: 'error',
\*                                                  error: 'Upload failed' } : f)
MarkFailed(fs) ==
    [ i \in 1..Len(fs) |->
        IF fs[i].status = "uploading"
        THEN [fs[i] EXCEPT !.status = "error"]
        ELSE fs[i] ]

\* addFilesToUpload: the file is staged as pending and the dialog opens.
AddFilesToUpload(f) ==
    /\ f \notin UploadIds(uploadFiles)
    /\ \A i \in 1..Len(uploadCalls) : f \notin uploadCalls[i].files
    /\ uploadFiles' = Append(uploadFiles,
                             [ file |-> f, status |-> "pending", progress |-> 0 ])
    /\ showUploadModal' = TRUE
    /\ UNCHANGED << serverVars, apiVars, hookVars, pyVars, wizardVars, batchVars,
                    authVars, uploadCalls, resetTimers, uploadAlerted >>

\* removeUploadFile(index): the button exists for pending files only.
RemoveUploadFile(i) ==
    /\ showUploadModal
    /\ i \in 1..Len(uploadFiles)
    /\ uploadFiles[i].status = "pending"
    /\ uploadFiles' = RemoveAt(uploadFiles, i)
    /\ UNCHANGED << serverVars, apiVars, hookVars, pyVars, wizardVars, batchVars,
                    authVars, showUploadModal, uploadCalls, resetTimers, uploadAlerted >>

\* The "Upload" button of the page: setShowUploadModal(true).
OpenUploadModal ==
    /\ ~showUploadModal
    /\ showUploadModal' = TRUE
    /\ UNCHANGED << serverVars, apiVars, hookVars, pyVars, wizardVars, batchVars,
                    authVars, uploadFiles, uploadCalls, resetTimers, uploadAlerted >>

\* Modal onClose / Cancel: the dialog closes and the list is emptied.
CloseUploadModal ==
    /\ showUploadModal
    /\ showUploadModal' = FALSE
    /\ uploadFiles' = <<>>
    /\ UNCHANGED << serverVars, apiVars, hookVars, pyVars, wizardVars, batchVars,
                    authVars, uploadCalls, resetTimers, uploadAlerted >>

\* handleUpload up to its await: without a report folder an alert; else the
\* pending files become uploading / 50 and onUpload is called with them.
HandleUpload(hasReport) ==
    /\ showUploadModal
    /\ \E i \in 1..Len(uploadFiles) : uploadFiles[i].status = "pending"
    /\ Len(uploadCalls) + resetTimers < MaxUploadCalls
    /\ IF ~hasReport
       THEN /\ uploadAlerted' = TRUE
            /\ UNCHANGED << uploadFiles, uploadCalls >>
       ELSE /\ uploadFiles' = MarkStatus(uploadFiles, "pending", "uploading", 50)
            /\ uploadCalls' = Append(uploadCalls,
                    [ files |-> { uploadFiles[i].file :
                                    i \in { k \in 1..Len(uploadFiles) :
                                            uploadFiles[k].status = "pending" } },
                      phase |-> "sent" ])
            /\ UNCHANGED uploadAlerted
    /\ UNCHANGED << serverVars, apiVars, hookVars, pyVars, wizardVars, batchVars,
                    authVars, showUploadModal, resetTimers >>

\* onUpload(reportId, files) resolves or rejects.
UploadAnswered(i, ok) ==
    /\ i \in 1..Len(uploadCalls)
    /\ uploadCalls[i].phase = "sent"
    /\ uploadCalls' = [uploadCalls EXCEPT
                        ![i].phase = IF ok THEN "resolved" ELSE "rejected"]
    /\ UNCHANGED << serverVars, apiVars, hookVars, pyVars, wizardVars, batchVars,
                    authVars, uploadFiles, showUploadModal, resetTimers, uploadAlerted >>

\* handleUpload after its await: uploading files become success / 100 and
\* the reset is scheduled, or (catch) uploading files become errors.
HandleUploadResumes(i) ==
    /\ i \in 1..Len(uploadCalls)
    /\ uploadCalls[i].phase # "sent"
    /\ uploadCalls' = RemoveAt(uploadCalls, i)
    /\ IF uploadCalls[i].phase = "resolved"
       THEN /\ uploadFiles' = MarkStatus(uploadFiles, "uploading", "success", 100)
            /\ resetTimers' = resetTimers + 1
       ELSE /\ uploadFiles' = MarkFailed(uploadFiles)
            /\ UNCHANGED resetTimers
    /\ UNCHANGED << serverVars, apiVars, hookVars, pyVars, wizardVars, batchVars,
                    authVars, showUploadModal, uploadAlerted >>

\* setTimeout(() => { setShowUploadModal(false); setUploadFiles([]); }, 1500)
ResetTimerFires ==
    /\ resetTimers > 0
    /\ resetTimers' = resetTimers - 1
    /\ showUploadModal' = FALSE
    /\ uploadFiles' = <<>>
    /\ UNCHANGED << serverVars, apiVars, hookVars, pyVars, wizardVars, batchVars,
                    authVars, uploadCalls, uploadAlerted >>

(***************************************************************************)
(* Session (useAuth), Layout and the admin pages.                          *)
(***************************************************************************)
RoleSets == { {"user"}, {"admin"} }

\* The children of the Layout route that the pages below concern.
LayoutPaths == { "/", "/upload", "/files", "/users" }

\* navItems with roles: ['admin']
AdminPaths == { "/files", "/users" }

\* isLoadingUser: userQuery.isLoading
IsLoadingUser == userQuery = "loading"

\* isAuthenticated: !!userQuery.data
IsAuthenticated == user # <<>>

\* The Layout is mounted and past its `if (isLoadingUser)` spinner.
LayoutRendered == path \in LayoutPaths /\ ~IsLoadingUser

\* if (user && !user.roles.includes('admin')) return <Navigate to="/" replace />
AccessDenied == user # <<>> /\ "admin" \notin user[1]

\* filteredNavItems: items without roles, and items some role of which the
\* user has (user?.roles?.includes(role)).
FilteredNavItems ==
    { p \in LayoutPaths :
        p \notin AdminPaths \/ (user # <<>> /\ "admin" \in user[1]) }

\* What the screen shows: the login page, the Layout's spinner, nothing
\* (a page that returned <Navigate>), or the page at the current path.
Shown ==
    IF path \notin LayoutPaths THEN "login"
    ELSE IF IsLoadingUser THEN "spinner"
    ELSE IF path \in AdminPaths /\ AccessDenied THEN "redirect"
    ELSE path

\* The menu entries on screen.
Menu == IF LayoutRendered THEN FilteredNavItems ELSE {}

\* LoginPage.handleSubmit with valid credentials: loginMutation.onSuccess
\* stores the token and the user, then navigate('/').
Login(roles) ==
    /\ path = "/login"
    /\ logoutPc = "idle"
    /\ token' = TRUE
    /\ account' = roles
    /\ user' = << roles >>
    /\ userQuery' = "success"
    /\ path' = "/"
    /\ UNCHANGED << serverVars, apiVars, hookVars, pyVars, wizardVars, batchVars,
                    dialogVars, logoutModalOpen, logoutPc >>

\* The browser loads the application at path p: the query cache is empty,
\* the user query runs when localStorage has a token.
OpenUrl(p) ==
    /\ logoutPc = "idle"
    /\ path' = p
    /\ user' = <<>>
    /\ userQuery' = IF token THEN "loading" ELSE "idle"
    /\ logoutModalOpen' = FALSE
    /\ UNCHANGED << serverVars, apiVars, hookVars, pyVars, wizardVars, batchVars,
                    dialogVars, token, account, logoutPc >>

\* GET /api/v1/auth/me settles (retry: false).
UserQuerySettles(ok) ==
    /\ userQuery = "loading"
    /\ IF ok
       THEN /\ userQuery' = "success"
            /\ user' = << account >>
       ELSE /\ userQuery' = "error"
            /\ UNCHANGED user
    /\ UNCHANGED << serverVars, apiVars, hookVars, pyVars, wizardVars, batchVars,
                    dialogVars, token, account, path, logoutModalOpen, logoutPc >>

\* Layout effect: if (!isLoadingUser && !isAuthenticated) navigate('/login')
LayoutEffect ==
    /\ LayoutRendered
    /\ ~IsAuthenticated
    /\ path' = "/login"
    /\ logoutModalOpen' = FALSE
    /\ UNCHANGED << serverVars, apiVars, hookVars, pyVars, wizardVars, batchVars,
                    dialogVars, token, account, userQuery, user, logoutPc >>

\* UsersPage / ReportsPage returned <Navigate to="/" replace />.
PageRedirect ==
    /\ Shown = "redirect"
    /\ path' = "/"
    /\ UNCHANGED << serverVars, apiVars, hookVars, pyVars, wizardVars, batchVars,
                    dialogVars, token, account, userQuery, user, logoutModalOpen, logoutPc >>

\* A NavLink of the menu is clicked.
ClickNav(p) ==
    /\ p \in Menu
    /\ p # path
    /\ path' = p
    /\ UNCHANGED << serverVars, apiVars, hookVars, pyVars, wizardVars, batchVars,
                    dialogVars, token, account, userQuery, user, logoutModalOpen, logoutPc >>

\* handleLogoutClick, and Cancel / onClose of the confirmation.
SetLogoutModalOpen(open) ==
    /\ LayoutRendered
    /\ logoutModalOpen # open
    /\ logoutModalOpen' = open
    /\ UNCHANGED << serverVars, apiVars, hookVars, pyVars, wizardVars, batchVars,
                    dialogVars, token, account, userQuery, user, path, logoutPc >>

\* performLogout up to `await logout()`: POST /api/v1/auth/logout is sent.
PerformLogout ==
    /\ LayoutRendered
    /\ logoutModalOpen
    /\ logoutPc = "idle"
    /\ logoutPc' = "request"
    /\ UNCHANGED << serverVars, apiVars, hookVars, pyVars, wizardVars, batchVars,
                    dialogVars, token, account, userQuery, user, path, logoutModalOpen >>

\* The logout request settles.  Resolved: authApi.logout removes the token,
\* onSuccess removes the user query, performLogout navigates to /login and
\* closes the confirmation.  Rejected: authApi.logout throws at its await,
\* onSuccess does not run and performLogout throws at `await logout()`.
LogoutSettles(ok) ==
    /\ logoutPc = "request"
    /\ logoutPc' = "idle"
    /\ IF ok
       THEN /\ token' = FALSE
            /\ user' = <<>>
            /\ userQuery' = "idle"
            /\ path' = "/login"
            /\ logoutModalOpen' = FALSE
       ELSE UNCHANGED << token, user, userQuery, path, logoutModalOpen >>
    /\ UNCHANGED << serverVars, apiVars, hookVars, pyVars, wizardVars, batchVars,
                    dialogVars, account >>

(***************************************************************************)
(* Initial state and specifications.                                       *)
(***************************************************************************)
Init ==
    /\ jobs = [j \in JobIds |-> <<>>]
    /\ celery = [j \in JobIds |-> "NONE"]
    /\ accepted = 0
    /\ enqueued = 0
    /\ lastCall = [ op |-> "none", job |-> NoJob, result |-> "none",
                    detail |-> NULL ]
    /\ mounted = FALSE
    /\ jobId = NoJob
    /\ state = <<>>
    /\ downloadUrl = NULL
    /\ intervalRef = 0
    /\ timerJob = [h \in 1..(MaxEffects) |-> NoJob]
    /\ activeTimers = {}
    /\ nextHandle = 1
    /\ inflight = <<>>
    /\ elapsed = 0
    /\ pyPc = "idle"
    /\ pyJob = NoJob
    /\ pyInterval = 0
    /\ pyNow = 0
    /\ pyDeadline = 0
    /\ pyResult = "none"
    /\ pyData = <<>>
    /\ currentStep = 1
    /\ reportId = 0
    /\ files = <<>>
    /\ selectedFiles = <<>>
    /\ analysisResult = NULL
    /\ alerts = {}
    /\ runPc = "idle"
    /\ runSel = <<>>
    /\ runReport = 0
    /\ runUploads = {}
    /\ serverFiles = {}
    /\ dispatched = {}
    /\ urlReportId = 0
    /\ reportData = <<>>
    /\ restoreCalls = <<>>
    /\ detailCall = NULL
    /\ lastRun = "none"
    /\ batch = {}
    /\ batchPhase = "idle"
    /\ polling = {}
    /\ anyFailed = FALSE
    /\ errors = <<>>
    /\ uploadFiles = <<>>
    /\ showUploadModal = FALSE
    /\ uploadCalls = <<>>
    /\ resetTimers = 0
    /\ uploadAlerted = FALSE
    /\ token = FALSE
    /\ account = {}
    /\ userQuery = "idle"
    /\ user = <<>>
    /\ path = "/login"
    /\ logoutModalOpen = FALSE
    /\ logoutPc = "idle"

Worker(ids) ==
    \E j \in ids :
        \/ WorkerPickUp(j)
        \/ WorkerAdvance(j)
        \/ WorkerPage(j)
        \/ WorkerFail(j)
        \/ WorkerCrash(j)

NextHook ==
    \/ \E j \in PollJobIds : UploadFile(j)
    \/ Worker(PollJobIds)
    \/ \E j \in JobIds \cup {NoJob} : SetJobId(j)
    \/ Unmount
    \/ \E h \in 1..MaxEffects : IntervalTick(h)
    \/ \E i \in 1..MaxInFlight : ServerAnswer(i)
    \/ \E i \in 1..MaxInFlight : FetchThrows(i)
    \/ \E i \in 1..MaxInFlight : PollResume(i)

SpecHook == Init /\ [][NextHook]_vars

NextPy ==
    \/ \E j \in PollJobIds : UploadFile(j)
    \/ Worker(PollJobIds)
    \/ \E j \in JobIds, interval \in PyIntervals, tmo \in PyTimeouts :
            PyCall(j, interval, tmo)
    \/ PyIterate
    \/ PyGetThrows
    \/ PyTimeout

SpecPy == Init /\ [][NextPy]_vars

NextWizard ==
    \/ Worker(JobIds)
    \/ \E ok \in BOOLEAN : HandleCreateReport(ok)
    \/ \E f \in JobIds : AddFile(f)
    \/ \E f \in JobIds : RemoveFile(f)
    \/ Navigate(2, 3)
    \/ Navigate(3, 2)
    \/ Navigate(2, 1)
    \/ \E f \in JobIds : ToggleFileSelection(f)
    \/ HandleImportAndAnalyze
    \/ \E ok \in BOOLEAN : UploadSettles(ok)
    \/ ImportDispatches
    \/ ImportFails
    \/ ImportResumes
    \/ \E outcome \in {"analysis", "empty", "throws"} : AnalyzeSettles(outcome)
    \/ HandleFinish

SpecWizard == Init /\ [][NextWizard]_vars

\* The wizard with its URL restore and the report browser; the worker is
\* left out, jobs stay as the import created them.
NextRestore ==
    \/ \E ok \in BOOLEAN : HandleCreateReport(ok)
    \/ \E S \in SUBSET JobIds : OpenReportUrl(S)
    \/ RestoreEffect
    \/ \E outcome \in {"analysis", "empty", "throws"} :
            RestoreAnalysisSettles(outcome)
    \/ DetailFetchAnalysis
    \/ DetailAnalysisSettles
    \/ \E f \in JobIds : AddFile(f)
    \/ \E f \in JobIds : RemoveFile(f)
    \/ Navigate(2, 3)
    \/ Navigate(3, 2)
    \/ Navigate(2, 1)
    \/ \E f \in JobIds : ToggleFileSelection(f)
    \/ SelectAllFiles
    \/ ClearAllFiles
    \/ \E f \in JobIds : SelectionRemoveFile(f)
    \/ HandleImportAndAnalyze
    \/ \E ok \in BOOLEAN : UploadSettles(ok)
    \/ ImportDispatches
    \/ ImportFails
    \/ ImportResumes
    \/ \E outcome \in {"analysis", "empty", "throws"} : AnalyzeSettles(outcome)
    \/ HandleFinish

SpecRestore == Init /\ [][NextRestore]_vars

\* The operations on the wizard's file list and selection alone: adding,
\* removing, selecting, restoring from the URL and restarting, no run.
NextSelect ==
    \/ \E ok \in BOOLEAN : HandleCreateReport(ok)
    \/ \E S \in SUBSET JobIds : OpenReportUrl(S)
    \/ RestoreEffect
    \/ \E outcome \in {"analysis", "empty", "throws"} :
            RestoreAnalysisSettles(outcome)
    \/ \E f \in JobIds : AddFile(f)
    \/ \E f \in JobIds : RemoveFile(f)
    \/ Navigate(2, 3)
    \/ Navigate(3, 2)
    \/ Navigate(2, 1)
    \/ \E f \in JobIds : ToggleFileSelection(f)
    \/ SelectAllFiles
    \/ ClearAllFiles
    \/ \E f \in JobIds : SelectionRemoveFile(f)
    \/ HandleFinish

SpecSelect == Init /\ [][NextSelect]_vars

\* One report from its creation or its URL through import-and-analyze runs:
\* files are added and selected, the restore effect and its late answers
\* included; no removal and no restart.
NextRun ==
    \/ \E ok \in BOOLEAN : HandleCreateReport(ok)
    \/ \E S \in SUBSET JobIds : OpenReportUrl(S)
    \/ RestoreEffect
    \/ \E outcome \in {"analysis", "empty", "throws"} :
            RestoreAnalysisSettles(outcome)
    \/ \E f \in JobIds : AddFile(f)
    \/ Navigate(2, 3)
    \/ \E f \in JobIds : ToggleFileSelection(f)
    \/ HandleImportAndAnalyze
    \/ \E ok \in BOOLEAN : UploadSettles(ok)
    \/ ImportDispatches
    \/ ImportFails
    \/ ImportResumes
    \/ \E outcome \in {"analysis", "empty", "throws"} : AnalyzeSettles(outcome)

SpecRun == Init /\ [][NextRun]_vars

NextDialog ==
    \/ \E f \in JobIds : AddFilesToUpload(f)
    \/ \E i \in 1..NJobs : RemoveUploadFile(i)
    \/ OpenUploadModal
    \/ CloseUploadModal
    \/ \E hasReport \in BOOLEAN : HandleUpload(hasReport)
    \/ \E i \in 1..MaxUploadCalls, ok \in BOOLEAN : UploadAnswered(i, ok)
    \/ \E i \in 1..MaxUploadCalls : HandleUploadResumes(i)
    \/ ResetTimerFires

SpecDialog == Init /\ [][NextDialog]_vars

NextAuth ==
    \/ \E roles \in RoleSets : Login(roles)
    \/ \E p \in LayoutPaths : OpenUrl(p)
    \/ \E ok \in BOOLEAN : UserQuerySettles(ok)
    \/ LayoutEffect
    \/ PageRedirect
    \/ \E p \in LayoutPaths : ClickNav(p)
    \/ \E open \in BOOLEAN : SetLogoutModalOpen(open)
    \/ PerformLogout
    \/ \E ok \in BOOLEAN : LogoutSettles(ok)

SpecAuth == Init /\ [][NextAuth]_vars

NextBatch ==
    \/ \E j \in JobIds : UploadFile(j)
    \/ Worker(JobIds)
    \/ \E S \in SUBSET JobIds : BatchStart(S)
    \/ \E j \in JobIds : BatchTick(j)
    \/ BatchJoin

SpecBatch == Init /\ [][NextBatch]_vars

NextJobs ==
    \/ \E j \in JobIds : UploadFile(j)
    \/ Worker(JobIds)
    \/ \E j \in JobIds : StatusQuery(j)
    \/ \E j \in JobIds : Download(j)
    \/ \E reason \in RejectReasons : UploadRejected(reason)
    \/ \E ctype \in ContentTypes : ProcessFiles(ctype)

SpecJobs == Init /\ [][NextJobs]_vars

(***************************************************************************)
(* Properties of the single-job pollers.                                   *)
(***************************************************************************)
\* The step resumes poll() on the answered fetch at position i.
Resumed(i) ==
    /\ i \in 1..Len(inflight)
    /\ inflight[i].phase = "answered"
    /\ inflight' = RemoveAt(inflight, i)

\* After the step, some interval still polls job j.
LoopActiveNext(j) == \E h \in activeTimers' : timerJob'[h] = j

\* C2: a response that shows processing_status completed or failed, or the
\* queue engine reporting failure, ends the polling loop of its job: once
\* it has been handled no interval polls that job any more.
C2_LoopEndsOnTerminalOrQueueFailure ==
    [][\A i \in 1..MaxInFlight :
            ( /\ Resumed(i)
              /\ inflight[i].resp.kind = "ok"
              /\ \/ inflight[i].resp.details.processing_status
                        \in TerminalStatus
                 \/ inflight[i].resp.failed )
            => ~LoopActiveNext(inflight[i].job)]_vars

\* C3: the polling loop never ends because a status request failed with a
\* transport error.
C3_TransportErrorKeepsPolling ==
    pyPc = "done" => pyResult # "TransportError"

\* C4: a not-found answer ends the polling loop of that id: once it has been
\* handled no interval polls the id any more.
C4_NotFoundEndsLoop ==
    [][\A i \in 1..MaxInFlight :
            (Resumed(i) /\ inflight[i].resp.kind = "notfound")
            => ~LoopActiveNext(inflight[i].job)]_vars

\* C5: polling always ends: once the configured timeout has elapsed no
\* interval is polling any more, whether or not the job became terminal.
C5_PollingEndsAtTimeout ==
    elapsed >= TimeoutTicks => activeTimers = {}

\* C9: after the poller is cancelled (unmount, or jobId changed) no request
\* is issued for the cancelled job and no response of the cancelled job
\* changes the progress state.
C9_NothingAfterCancellation ==
    [][/\ \A i \in 1..MaxInFlight :
            (Resumed(i) /\ (inflight[i].job # jobId \/ ~mounted))
            => (state' = state /\ downloadUrl' = downloadUrl)
       /\ Len(inflight') > Len(inflight)
            => (mounted' /\ inflight'[Len(inflight')].job = jobId')]_vars

\* C10: at most one status request of a job is in flight at any time.
C10_OneRequestInFlightPerJob ==
    \A j \in JobIds :
        Cardinality({ i \in 1..Len(inflight) : inflight[i].job = j }) <= 1

(***************************************************************************)
(* Properties of the import-and-analyze workflow.                          *)
(***************************************************************************)
\* C1: while the analyze request of the workflow is out, every job the
\* import dispatched is terminal (completed or failed).
C1_AnalyzeOnlyAfterAllTerminal ==
    runPc = "analyze" => \A j \in dispatched : IsTerminal(j)

FailedJobs == { j \in dispatched : Status(j) = "failed" }

\* The wizard shows the failure of job j: its error_message in a dialog, or
\* its file marked as an error.
Surfaced(j) ==
    \/ Job(j).error_message \in alerts
    \/ \E i \in 1..Len(files) : files[i].id = j /\ files[i].status = "error"

\* C6: when the workflow has reached the completion step and the batch is
\* done with at least one failed job, the failure of every failed job has
\* been surfaced.
C6_PartialFailureSurfaced ==
    ( /\ currentStep = 5
      /\ runPc = "idle"
      /\ \A j \in dispatched : IsTerminal(j)
      /\ FailedJobs # {} )
    => \A j \in FailedJobs : Surfaced(j)

\* C7: however the analyze request settles, failure included, the wizard
\* advances to the completion step 5.
C7_AnalyzeFailureNonFatal ==
    [][(runPc = "analyze" /\ runPc' # "analyze") => currentStep' = 5]_vars

(***************************************************************************)
(* Properties of the batch poller.                                         *)
(***************************************************************************)
\* Job j of the job store ended as a failure.
EndedAsFailure(j) == Status(j) = "failed" \/ celery[j] = "FAILURE"

C11_SnapshotWrittenByOwnJobOnly ==
    [][\A i \in 1..MaxInFlight :
            (Resumed(i) /\ jobId # NoJob /\ inflight[i].job # jobId)
            => state' = state]_vars

\* C12: every change of a job's processing_status is a move to the
\* immediately next state of the progression, or a move to failed.
C12_StatusMovesToNextOrFailed ==
    [][\A j \in JobIds :
            (Exists(j) /\ Status(j)' # Status(j)) =>
                \/ Status(j)' = "failed"
                \/ /\ Status(j) \notin TerminalStatus
                   /\ Status(j)' = StatusOrder[Rank(Status(j)) + 1]]_vars

\* A job went through the whole progression up to summarising.
C12_Witness ==
    \E j \in JobIds :
        /\ Exists(j)
        /\ Status(j) = "summarising"
        /\ Job(j).current_page = Job(j).total_pages

\* C13: completed and failed are absorbing: the record of a terminal job
\* never changes, and neither does the status object a poll of it returns.
C13_TerminalIsAbsorbing ==
    [][\A j \in JobIds :
            IsTerminal(j) =>
                /\ jobs'[j] = jobs[j]
                /\ StatusResponse(j)' = StatusResponse(j)]_vars

\* A failed job and a completed job have both been there, and a terminal job
\* has been polled.
C13_Witness ==
    /\ \E j, k \in JobIds :
            /\ Exists(j) /\ Status(j) = "failed"
            /\ Exists(k) /\ Status(k) = "completed"
    /\ lastCall.op = "status"
    /\ IsTerminal(lastCall.job)

\* new does not come before old in the progression; failed can follow any
\* status and only failed can follow failed.
NotBefore(old, new) ==
    \/ new = "failed"
    \/ old # "failed" /\ Rank(new) >= Rank(old)

\* C14: the processing_status values the poller of a job observes one after
\* the other never go backwards in the progression, except for a jump to
\* failed.
C14_ObservedStatusNeverGoesBack ==
    [][\A i \in 1..MaxInFlight :
            ( /\ Resumed(i)
              /\ inflight[i].resp.kind = "ok"
              /\ inflight[i].job = jobId
              /\ state # <<>>
              /\ state' # <<>> )
            => NotBefore(state[1].processing_status,
                         state'[1].processing_status)]_vars

\* C15: in every job record, completed_at is set exactly when the status is
\* completed or failed, error_message exactly when it is failed, and
\* output_pdf_path and summary exactly when it is completed.
C15_FieldCoOccurrence ==
    \A j \in JobIds :
        Exists(j) =>
            /\ (Job(j).completed_at # NULL) <=> (Status(j) \in TerminalStatus)
            /\ (Job(j).error_message # NULL) <=> (Status(j) = "failed")
            /\ (Job(j).output_pdf_path # NULL) <=> (Status(j) = "completed")
            /\ (Job(j).summary # NULL) <=> (Status(j) = "completed")

\* total_pages is null before ocr_completed and is written once, on entering
\* ocr_completed.
TotalPagesSetOnce(j) ==
    /\ Status(j) \in {"queued", "processing", "ocr_started"}
            => Job(j).total_pages = NoPage
    /\ Job(j).total_pages' # Job(j).total_pages
            => /\ Job(j).total_pages = NoPage
               /\ Status(j) = "ocr_started"
               /\ Status(j)' = "ocr_completed"

\* The step counts one more page during the translation.
PageCounted(j) ==
    /\ Status(j) = "translation_started"
    /\ Status(j)' = "translation_started"
    /\ Job(j).current_page' = Job(j).current_page + 1

C17_OneJobPerAcceptedSubmission ==
    [][/\ Cardinality({ j \in JobIds : Exists(j)' }) = accepted'
       /\ enqueued' = accepted'
       /\ accepted' # accepted =>
            /\ accepted' = accepted + 1
            /\ \E j \in JobIds :
                    /\ ~Exists(j)
                    /\ Exists(j)'
                    /\ Status(j)' = "queued"
                    /\ celery'[j] = "PENDING"
                    /\ lastCall'.job = j
                    /\ lastCall'.result = "queued"
                    /\ \A k \in JobIds \ {j} :
                            jobs'[k] = jobs[k] /\ celery'[k] = celery[k]]_vars

\* Two submissions were accepted.
C17_Witness ==
    /\ accepted = 2
    /\ lastCall.op = "upload"
    /\ lastCall.result = "queued"

\* C18: a submission that is refused creates no job record and sends no
\* task, and an error is returned to the caller.
C18_RejectedSubmissionReturnsError ==
    [][(lastCall' # lastCall /\ lastCall'.result \in {"error", "dropped"}) =>
            /\ jobs' = jobs
            /\ celery' = celery
            /\ enqueued' = enqueued
            /\ lastCall'.result = "error"]_vars

\* C19: status queries and downloads leave the job store and the queue as
\* they are, and the record of an existing job changes only in steps that
\* are no call of the API.
C19_QueriesLeaveJobsUnchanged ==
    [][/\ (lastCall' # lastCall /\ lastCall'.op \in {"status", "download"})
            => (jobs' = jobs /\ celery' = celery)
       /\ \A j \in JobIds :
            (Exists(j) /\ jobs'[j] # jobs[j])
            => (lastCall' = lastCall /\ accepted' = accepted)]_vars

\* A job in the middle of its translation has been polled.
C19_Witness ==
    /\ lastCall.op = "status"
    /\ Exists(lastCall.job)
    /\ Status(lastCall.job) = "translation_started"

\* C20: a status object carries a download locator only for a completed
\* job, and the download endpoint answers not-found for every job that is
\* not completed.
C20_ArtifactOnlyForCompleted ==
    /\ \A j \in JobIds :
            /\ StatusResponse(j).download_url # NULL
                    => (Exists(j) /\ Status(j) = "completed")
            /\ DownloadResponse(j) # "notfound"
                    => (Exists(j) /\ Status(j) = "completed")
    /\ (lastCall.op = "status" /\ lastCall.detail # NULL)
            => (Exists(lastCall.job) /\ Status(lastCall.job) = "completed")
    /\ (lastCall.op = "download" /\ lastCall.result = "file")
            => (Exists(lastCall.job) /\ Status(lastCall.job) = "completed")

\* The artifact of a completed job was downloaded while another job, not
\* completed, exists.
C20_Witness ==
    /\ lastCall.op = "download"
    /\ lastCall.result = "file"
    /\ \E j \in JobIds : Exists(j) /\ Status(j) # "completed"

(***************************************************************************)
(* Properties of the wizard's URL restore and of the report browser.       *)
(***************************************************************************)
\* C21: opening an existing report, in the detail view or by restoring the
\* wizard from the URL, only reads the stored analysis: no request that
\* either of them has in flight is the analyze request.
C21_OpeningOnlyReadsAnalysis ==
    /\ \A i \in 1..Len(restoreCalls) : restoreCalls[i].op # "analyzeReport"
    /\ detailCall # "analyzeReport"

\* C25: every id in selectedFiles is the id of a file in files.
C25_SelectionWithinFiles ==
    \A i \in 1..Len(selectedFiles) : selectedFiles[i] \in Ids(files)

\* Two files were restored from the URL, one of them has been removed and
\* the other is still selected.
C25_Witness ==
    /\ reportData = << {1, 2} >>
    /\ Len(files) = 1
    /\ files[1].size = 0
    /\ Len(selectedFiles) = 1

\* The step ends an import-and-analyze run.
RunEnds == runPc # "idle" /\ runPc' = "idle"

\* C23: once the wizard is in the processing step (4), its step changes only
\* when the run ends, to 5 when the run succeeded and to 3 when it failed;
\* nothing else, a late answer to the restore's analysis check included,
\* moves the wizard while the run is in progress.
C23_StepFourLeftOnlyByItsRun ==
    [][(currentStep = 4 /\ currentStep' # 4) =>
            /\ RunEnds
            /\ \/ lastRun' = "ok" /\ currentStep' = 5
               \/ lastRun' = "failed" /\ currentStep' = 3]_vars

C22_LateResponseKeepsCurrentTimer ==
    [][\A i \in 1..MaxInFlight :
            ( /\ Resumed(i)
              /\ jobId # NoJob
              /\ inflight[i].job # jobId
              /\ intervalRef \in activeTimers
              /\ timerJob[intervalRef] = jobId )
            => intervalRef \in activeTimers']_vars

(***************************************************************************)
(* Properties of the file management upload dialog.                        *)
(***************************************************************************)
\* The status of file f in the list fs, "absent" when it is not listed.
StatusOf(fs, f) ==
    IF f \in UploadIds(fs)
    THEN fs[CHOOSE i \in 1..Len(fs) : fs[i].file = f].status
    ELSE "absent"

\* The step is handleUpload resuming on a settled call that carried file f.
OwnCallHandled(f, phases) ==
    \E i \in 1..Len(uploadCalls) :
        /\ uploadCalls' = RemoveAt(uploadCalls, i)
        /\ uploadCalls[i].phase \in phases
        /\ f \in uploadCalls[i].files

\* C26: a file becomes success only when the call that carried it has
\* resolved; an uploading file changes status only when the call that
\* carried it is handled (or the user dismisses the dialog); and the delayed
\* reset removes no file that is pending or uploading.
C26_StatusFollowsOwnCall ==
    [][\A f \in JobIds :
        /\ (StatusOf(uploadFiles', f) = "success"
                /\ StatusOf(uploadFiles, f) # "success")
            => OwnCallHandled(f, {"resolved"})
        /\ (StatusOf(uploadFiles, f) = "uploading"
                /\ StatusOf(uploadFiles', f) \notin {"uploading", "absent"})
            => OwnCallHandled(f, {"resolved", "rejected"})
        /\ (resetTimers' < resetTimers
                /\ StatusOf(uploadFiles, f) \in {"pending", "uploading"})
            => StatusOf(uploadFiles', f) = StatusOf(uploadFiles, f)]_vars

(***************************************************************************)
(* Properties of the session and of the admin pages.                       *)
(***************************************************************************)
\* C27: when a confirmed logout has been handled, whether the server's
\* logout request succeeded or failed, the stored token is gone and no user
\* is cached.
C27_LogoutClearsSession ==
    [][(logoutPc = "request" /\ logoutPc' = "idle") =>
            (~token' /\ user' = <<>>)]_vars

\* C28: as long as the signed-in account has no admin role, the screen shows
\* neither the Users page nor the File Management page and the menu has
\* neither entry, in every state of the user query.
C28_AdminPagesHiddenFromNonAdmin ==
    (token /\ "admin" \notin account) =>
        /\ Shown \notin AdminPaths
        /\ Menu \cap AdminPaths = {}

====
